---- MODULE Spec2Model ----
(***************************************************************************)
(* Hadamard-test gradient transform of pennylane/gradients/                *)
(* hadamard_gradient.py: the call of _hadamard_grad on a tape, the         *)
(* execution of the emitted tapes, and the call of the returned            *)
(* processing_fn on the results.                                           *)
(*                                                                         *)
(* Representation of Python values:                                        *)
(*   None-able argument x : [none |-> BOOLEAN, v |-> value]                *)
(*   gate                 : [name, wires, data, gen]                       *)
(*   angle                : [num |-> n, halfpi |-> h]  = n + h * (pi / 2)  *)
(*   Pauli word           : sequence of [p |-> "X"|"Y"|"Z", w |-> wire]    *)
(*   measurement          : [mp, obs, wires]                               *)
(*   coefficient          : integer number of quarters (-0.5 is -2)        *)
(*   number               : integer; a number produced by the scaling      *)
(*                          2 * coeff * r is kept in halves of r's unit    *)
(***************************************************************************)
EXTENDS Integers, Sequences, FiniteSets, TLC

VARIABLES
    active_return,  \* qml.active_return()
    tape,           \* the input tape: operations, measurements, trainable_params
    diff_methods,   \* what grad_method_validation returns for the tape
    argnum,         \* argument argnum (None or a list of trainable indices)
    aux_wire,       \* argument aux_wire (None or Wires)
    device_wires,   \* argument device_wires (None or Wires)
    pc,             \* "call" | "returned" | "raised" | "executed" | "done"
    ret,            \* what _hadamard_grad returned or raised
    results,        \* the executor's results, one per emitted tape
    final_res,      \* processing_fn's local final_res when it ended
    grads,          \* processing_fn's local grads when it ended
    jac             \* what processing_fn returned or raised

vars == <<active_return, tape, diff_methods, argnum, aux_wire, device_wires,
          pc, ret, results, final_res, grads, jac>>

(***************************************************************************)
(* Bounds of the model.                                                    *)
(***************************************************************************)
MaxOps == 3
MaxTrainable == 2
MaxMeas == 2
MaxSeed == 1

----------------------------------------------------------------------------
(* Python helpers *)

None == [none |-> TRUE, v |-> <<>>]
Some(x) == [none |-> FALSE, v |-> x]

Range(s) == {s[i] : i \in 1..Len(s)}

Contains(s, x) == \E i \in 1..Len(s) : s[i] = x

SetMin(S) == CHOOSE x \in S : \A y \in S : x <= y

RECURSIVE SortedSeq(_)
SortedSeq(S) ==
    IF S = {} THEN <<>> ELSE <<SetMin(S)>> \o SortedSeq(S \ {SetMin(S)})

RECURSIVE SumSeq(_)
SumSeq(s) == IF s = <<>> THEN 0 ELSE Head(s) + SumSeq(Tail(s))

RECURSIVE Pow2(_)
Pow2(n) == IF n = 0 THEN 1 ELSE 2 * Pow2(n - 1)

----------------------------------------------------------------------------
(* Gates, observables and measurements *)

Angle(n) == [num |-> n, halfpi |-> 0]
HalfPiTimes(h) == [num |-> 0, halfpi |-> h]
Neg(a) == [num |-> 0 - a.num, halfpi |-> 0 - a.halfpi]

Gate(name, wires, data) == [name |-> name, wires |-> wires, data |-> data, gen |-> <<>>]

Pauli(p, w) == [p |-> p, w |-> w]

\* qml.ctrl(gen, control=aux_wire)
Ctrl(gen, aux) == [name |-> "ctrl", wires |-> aux, data |-> <<>>, gen |-> gen]

Hadamard(aux) == Gate("Hadamard", aux, <<>>)

NumParams(name) ==
    CASE name = "Rot" -> 3
      [] name \in {"RX", "RY", "RZ", "PhaseShift", "U1", "CRX", "CRY", "CRZ",
                   "IsingXX", "IsingYY", "IsingZZ"} -> 1
      [] OTHER -> 0

\* tape.wires: the wires of the operations and of the measurements
TapeWires(t) ==
    UNION {Range(t.operations[i].wires) : i \in 1..Len(t.operations)}
    \cup UNION {Range(t.measurements[i].wires) : i \in 1..Len(t.measurements)}

\* number of gate parameters before operation i (the flattened parameter index
\* of its first parameter)
RECURSIVE ParamOffset(_, _)
ParamOffset(ops, i) ==
    IF i <= 1 THEN 0 ELSE ParamOffset(ops, i - 1) + Len(ops[i - 1].data)

\* tape.get_operation(idx): the operation owning trainable parameter idx, its
\* position in tape.operations and the parameter's position within the operation
get_operation(t, idx) ==
    LET t_idx == t.trainable_params[idx + 1]
        i == CHOOSE i \in 1..Len(t.operations) :
                 /\ ParamOffset(t.operations, i) <= t_idx
                 /\ t_idx < ParamOffset(t.operations, i) + Len(t.operations[i].data)
    IN [op |-> t.operations[i], idx |-> i - 1,
        p_idx |-> t_idx - ParamOffset(t.operations, i)]

----------------------------------------------------------------------------
(* _get_generators *)

_get_generators(trainable_op) ==
    LET n == trainable_op.name
        w == trainable_op.wires
    IN CASE n \in {"PhaseShift", "U1"} ->
              [coeffs |-> <<-2>>, generators |-> << <<Pauli("Z", w[1])>> >>]
         [] n = "CRX" ->
              [coeffs |-> <<-1, 1>>,
               generators |-> << <<Pauli("X", w[2])>>,
                                 <<Pauli("Z", w[1]), Pauli("X", w[2])>> >>]
         [] n = "CRY" ->
              [coeffs |-> <<-1, 1>>,
               generators |-> << <<Pauli("Y", w[2])>>,
                                 <<Pauli("Z", w[1]), Pauli("Y", w[2])>> >>]
         [] n = "CRZ" ->
              [coeffs |-> <<-1, 1>>,
               generators |-> << <<Pauli("Z", w[2])>>,
                                 <<Pauli("Z", w[1]), Pauli("Z", w[2])>> >>]
         [] n = "IsingXX" ->
              [coeffs |-> <<-2>>,
               generators |-> << <<Pauli("X", w[1]), Pauli("X", w[2])>> >>]
         [] n = "IsingYY" ->
              [coeffs |-> <<-2>>,
               generators |-> << <<Pauli("Y", w[1]), Pauli("Y", w[2])>> >>]
         [] n = "IsingZZ" ->
              [coeffs |-> <<-2>>,
               generators |-> << <<Pauli("Z", w[1]), Pauli("Z", w[2])>> >>]
         [] n = "Rot" ->
              [coeffs |-> <<-2>>, generators |-> << <<Pauli("Z", w[1])>> >>]
         \* trainable_op.generator(): -0.5 * PauliX / PauliY / PauliZ for RX / RY / RZ
         [] n = "RX" ->
              [coeffs |-> <<-2>>, generators |-> << <<Pauli("X", w[1])>> >>]
         [] n = "RY" ->
              [coeffs |-> <<-2>>, generators |-> << <<Pauli("Y", w[1])>> >>]
         [] OTHER ->
              [coeffs |-> <<-2>>, generators |-> << <<Pauli("Z", w[1])>> >>]

----------------------------------------------------------------------------
(* _expval_hadamard_grad: the emitted tapes *)

\* lines 289-303: the measurement with PauliY on the auxiliary wire appended to
\* its observable (the computational-basis observable of its wires if it has none)
ExtendMeasurement(m, aux) ==
    LET obs_old == IF m.obs # <<>> THEN m.obs
                   ELSE [i \in 1..Len(m.wires) |-> Pauli("Z", m.wires[i])]
        obs_new == Append(obs_old, Pauli("Y", aux[1]))
    IN [mp |-> IF m.mp = "expval" THEN "expval" ELSE "probs",
        obs |-> obs_new,
        wires |-> [i \in 1..Len(obs_new) |-> obs_new[i].w]]

\* the X and Y factors of the measurements' observables, in order of first
\* appearance
RECURSIVE NonDiagonalFactors(_, _)
NonDiagonalFactors(factors, seen) ==
    IF factors = <<>> THEN <<>>
    ELSE IF Head(factors).p = "Z" \/ Head(factors) \in seen
         THEN NonDiagonalFactors(Tail(factors), seen)
         ELSE <<Head(factors)>>
              \o NonDiagonalFactors(Tail(factors), seen \cup {Head(factors)})

RECURSIVE Flatten(_)
Flatten(ss) == IF ss = <<>> THEN <<>> ELSE Head(ss) \o Flatten(Tail(ss))

\* qml.tape.tape.rotations_and_diagonal_measurements: the rotations that
\* diagonalize the observables and the measurements in the computational basis
rotations_and_diagonal_measurements(measurements) ==
    LET nd == NonDiagonalFactors(
                  Flatten([i \in 1..Len(measurements) |-> measurements[i].obs]), {})
    IN [rotations |-> [i \in 1..Len(nd) |->
                           Gate("Diagonalize" \o nd[i].p, <<nd[i].w>>, <<>>)],
        measurements |-> [i \in 1..Len(measurements) |->
                              [mp |-> measurements[i].mp,
                               obs |-> [j \in 1..Len(measurements[i].obs) |->
                                            Pauli("Z", measurements[i].obs[j].w)],
                               wires |-> measurements[i].wires]]]

\* lines 283-311: one emitted tape
NewTape(t, aux, gen, ops_to_trainable_op, ops_after_trainable_op) ==
    LET ctrl_gen == <<Ctrl(gen, aux)>>
        hadamard == <<Hadamard(aux)>>
        ops == ops_to_trainable_op \o hadamard \o ctrl_gen \o hadamard
               \o ops_after_trainable_op
        measurements == [i \in 1..Len(t.measurements) |->
                             ExtendMeasurement(t.measurements[i], aux)]
        rd == rotations_and_diagonal_measurements(measurements)
    IN [ops |-> ops, rotations |-> rd.rotations, measurements |-> rd.measurements]

\* faulty variant of RotOpsBefore: the last gate is popped whatever the gate and
\* the parameter
RotOpsBefore_PopAlways(trainable_op, p_idx, ops_to_trainable_op) ==
    SubSeq(ops_to_trainable_op, 1, Len(ops_to_trainable_op) - 1)

\* lines 262-281: the gates before the first Hadamard
RotOpsBefore(trainable_op, p_idx, ops_to_trainable_op) ==
    IF trainable_op.name # "Rot" THEN ops_to_trainable_op
    ELSE IF p_idx = 0
         THEN SubSeq(ops_to_trainable_op, 1, Len(ops_to_trainable_op) - 1)
    ELSE IF p_idx = 1
         THEN ops_to_trainable_op
              \o <<Gate("RZ", trainable_op.wires, <<Neg(trainable_op.data[3])>>),
                   Gate("RX", trainable_op.wires, <<HalfPiTimes(1)>>)>>
    ELSE ops_to_trainable_op

\* faulty variant of RotOpsAfter: the two added rotations in the order of those added
\* before the generator
RotOpsAfter_Swapped(trainable_op, p_idx, ops_to_trainable_op, ops_after_trainable_op) ==
    IF trainable_op.name # "Rot" THEN ops_after_trainable_op
    ELSE IF p_idx = 0
         THEN <<ops_to_trainable_op[Len(ops_to_trainable_op)]>>
              \o ops_after_trainable_op
    ELSE IF p_idx = 1
         THEN <<Gate("RZ", trainable_op.wires, <<trainable_op.data[3]>>),
                Gate("RX", trainable_op.wires, <<HalfPiTimes(-1)>>)>>
              \o ops_after_trainable_op
    ELSE ops_after_trainable_op

\* lines 262-281: the gates after the second Hadamard
RotOpsAfter(trainable_op, p_idx, ops_to_trainable_op, ops_after_trainable_op) ==
    IF trainable_op.name # "Rot" THEN ops_after_trainable_op
    ELSE IF p_idx = 0
         THEN <<ops_to_trainable_op[Len(ops_to_trainable_op)]>>
              \o ops_after_trainable_op
    ELSE IF p_idx = 1
         THEN <<Gate("RX", trainable_op.wires, <<HalfPiTimes(-1)>>),
                Gate("RZ", trainable_op.wires, <<trainable_op.data[3]>>)>>
              \o ops_after_trainable_op
    ELSE ops_after_trainable_op

\* lines 261-315: the loop over the generators of one trainable parameter; the
\* two gate lists are carried from one iteration to the next
RECURSIVE GeneratorLoop(_, _, _, _, _, _, _)
GeneratorLoop(t, aux, trainable_op, p_idx, generators, ops_to, ops_after) ==
    IF generators = <<>> THEN <<>>
    ELSE LET ops_to_trainable_op == RotOpsBefore(trainable_op, p_idx, ops_to)
             ops_after_trainable_op == RotOpsAfter(trainable_op, p_idx, ops_to, ops_after)
         IN <<NewTape(t, aux, Head(generators), ops_to_trainable_op,
                      ops_after_trainable_op)>>
            \o GeneratorLoop(t, aux, trainable_op, p_idx, Tail(generators),
                             ops_to_trainable_op, ops_after_trainable_op)

\* line 252: tape.operations[: idx + 1]
OpsToTrainableOp(operations, idx) == SubSeq(operations, 1, idx + 1)

\* line 253: tape.operations[idx + 1 :]
OpsAfterTrainableOp(operations, idx) == SubSeq(operations, idx + 2, Len(operations))

\* line 245: whether trainable parameter id_argnum is differentiated
InArgnums(id_argnum, argnums) == Contains(argnums, id_argnum)

\* lines 244-317: the loop over the trainable parameters, from id_argnum on
RECURSIVE ParameterLoop(_, _, _, _)
ParameterLoop(t, argnums, aux, id_argnum) ==
    IF id_argnum >= Len(t.trainable_params)
    THEN [g_tapes |-> <<>>, coeffs |-> <<>>, gradient_data |-> <<>>]
    ELSE LET rest == ParameterLoop(t, argnums, aux, id_argnum + 1)
         IN IF ~InArgnums(id_argnum, argnums)
            THEN [g_tapes |-> rest.g_tapes, coeffs |-> rest.coeffs,
                  gradient_data |-> <<0>> \o rest.gradient_data]
            ELSE LET o == get_operation(t, id_argnum)
                     gg == _get_generators(o.op)
                     new == GeneratorLoop(t, aux, o.op, o.p_idx, gg.generators,
                                OpsToTrainableOp(t.operations, o.idx),
                                OpsAfterTrainableOp(t.operations, o.idx))
                 IN [g_tapes |-> new \o rest.g_tapes,
                     coeffs |-> gg.coeffs \o rest.coeffs,
                     gradient_data |-> <<Len(new)>> \o rest.gradient_data]

\* lines 239-243: the indices of the probability measurements
MeasurementsProbs(t) ==
    SortedSeq({i - 1 : i \in {j \in 1..Len(t.measurements) :
                                  t.measurements[j].mp = "probs"}})

\* line 234: argnum or tape.trainable_params
Argnums(t, argnum_list) ==
    IF argnum_list # <<>> THEN argnum_list ELSE t.trainable_params

\* lines 228-382: the emitted tapes and what processing_fn closes over
_expval_hadamard_grad(t, argnum_list, aux) ==
    LET loop == ParameterLoop(t, Argnums(t, argnum_list), aux, 0)
    IN [g_tapes |-> loop.g_tapes,
        coeffs |-> loop.coeffs,
        gradient_data |-> loop.gradient_data,
        measurements_probs |-> MeasurementsProbs(t)]

----------------------------------------------------------------------------
(* _hadamard_grad *)

\* choose_grad_methods(diff_methods, argnum): the map from the chosen trainable
\* indices (all of them if argnum is None) to their methods, as a list of pairs
choose_grad_methods(dm, argnum_arg) ==
    IF argnum_arg.none
    THEN [i \in 1..Len(dm) |-> [idx |-> i - 1, dm |-> dm[i]]]
    ELSE [i \in 1..Len(argnum_arg.v) |->
              [idx |-> argnum_arg.v[i], dm |-> dm[argnum_arg.v[i] + 1]]]

\* line 208: [i for i, dm in method_map.items() if dm == "A"]
RECURSIVE AnalyticArgnum(_)
AnalyticArgnum(method_map) ==
    IF method_map = <<>> THEN <<>>
    ELSE (IF Head(method_map).dm = "A" THEN <<Head(method_map).idx>> ELSE <<>>)
         \o AnalyticArgnum(Tail(method_map))

\* _get_aux_wire(None, tape, device_wires): a wire the tape does not use, of the
\* device if its wires are given
_get_aux_wire(t, device_wires_arg) ==
    IF ~device_wires_arg.none
    THEN LET unused == Range(device_wires_arg.v) \ TapeWires(t)
         IN IF unused = {} THEN [ok |-> FALSE, wire |-> <<>>]
            ELSE [ok |-> TRUE, wire |-> <<SetMin(unused)>>]
    ELSE LET n == Cardinality(TapeWires(t))
             free == {w \in 0..n : w \notin TapeWires(t)}
         IN [ok |-> TRUE, wire |-> <<SetMin(free)>>]

NoFn == [coeffs |-> <<>>, gradient_data |-> <<>>, measurements_probs |-> <<>>]

Raised(exc) == [kind |-> "raise", exc |-> exc, g_tapes |-> <<>>, fn |-> NoFn]

Returned(kind, g_tapes, fn) == [kind |-> kind, exc |-> "", g_tapes |-> g_tapes, fn |-> fn]

\* faulty variant of MeasurementError: MutualInfoMP is not in the second check
MeasurementError_NoMutualInfo(t) ==
    IF \E i \in 1..Len(t.measurements) : t.measurements[i].mp = "var"
    THEN "ValueError: variances"
    ELSE IF \E i \in 1..Len(t.measurements) :
                t.measurements[i].mp \in {"state", "vn_entropy"}
    THEN "ValueError: state"
    ELSE ""

\* lines 187-194: the measurements the transform rejects
MeasurementError(t) ==
    IF \E i \in 1..Len(t.measurements) : t.measurements[i].mp = "var"
    THEN "ValueError: variances"
    ELSE IF \E i \in 1..Len(t.measurements) :
                t.measurements[i].mp \in {"state", "vn_entropy", "mutual_info"}
    THEN "ValueError: state"
    ELSE ""

\* lines 210-221: the auxiliary wire, or the error of its validation
AuxWireCheck(t, aux_wire_arg, device_wires_arg) ==
    IF /\ ~device_wires_arg.none
       /\ device_wires_arg.v # <<>>
       /\ Cardinality(TapeWires(t)) = Len(device_wires_arg.v)
    THEN [exc |-> "QuantumFunctionError: no free wire", wire |-> <<>>]
    ELSE IF aux_wire_arg.none
    THEN LET found == _get_aux_wire(t, device_wires_arg)
         IN IF found.ok THEN [exc |-> "", wire |-> found.wire]
            ELSE [exc |-> "WireError: no free wire", wire |-> <<>>]
    ELSE IF aux_wire_arg.v[1] \in TapeWires(t)
    THEN [exc |-> "QuantumFunctionError: already used", wire |-> <<>>]
    \* aux_wire[0] not in None
    ELSE IF device_wires_arg.none
    THEN [exc |-> "TypeError", wire |-> <<>>]
    ELSE IF aux_wire_arg.v[1] \notin Range(device_wires_arg.v)
    THEN [exc |-> "QuantumFunctionError: not on device", wire |-> <<>>]
    ELSE [exc |-> "", wire |-> aux_wire_arg.v]

\* lines 183-225
_hadamard_grad(active, t, dm, argnum_arg, aux_wire_arg, device_wires_arg) ==
    IF ~active THEN Raised("NotImplementedError")
    ELSE IF MeasurementError(t) # "" THEN Raised(MeasurementError(t))
    ELSE IF argnum_arg.none /\ t.trainable_params = <<>>
    THEN Returned("no_trainable", <<>>, NoFn)
    ELSE IF \A i \in 1..Len(dm) : dm[i] = "0"
    THEN Returned("all_zero", <<>>, NoFn)
    ELSE LET method_map == choose_grad_methods(dm, argnum_arg)
             argnum_list == AnalyticArgnum(method_map)
             aux == AuxWireCheck(t, aux_wire_arg, device_wires_arg)
         IN IF aux.exc # "" THEN Raised(aux.exc)
            ELSE LET e == _expval_hadamard_grad(t, argnum_list, aux.wire)
                 IN Returned("tapes", e.g_tapes,
                             [coeffs |-> e.coeffs,
                              gradient_data |-> e.gradient_data,
                              measurements_probs |-> e.measurements_probs])

----------------------------------------------------------------------------
(* processing_fn *)

(***************************************************************************)
(* Numeric values: an array of dimension 0 (one number) or 1 (a vector), a *)
(* sequence (tuple, list) of values, or the exception that was raised.     *)
(***************************************************************************)
Arr(dim, v) == [t |-> "array", dim |-> dim, v |-> v, items |-> <<>>]
SeqOf(items) == [t |-> "seq", dim |-> 0, v |-> <<>>, items |-> items]
Exc(e) == [t |-> e, dim |-> 0, v |-> <<>>, items |-> <<>>]
IsExc(x) == x.t \notin {"array", "seq"}

\* qml.math.zeros(())
Zeros == Arr(0, <<0>>)

\* line 324, 326: 2 * coeff * r, the coefficient in quarters and the product in
\* halves
Scale(coeff, r) == Arr(r.dim, [i \in 1..Len(r.v) |-> coeff * r.v[i]])

\* lines 323-328
ScaledResults(coeffs, res) ==
    LET n == IF Len(coeffs) < Len(res) THEN Len(coeffs) ELSE Len(res)
    IN [p \in 1..n |->
           IF res[p].t = "seq"
           THEN SeqOf([i \in 1..Len(res[p].items) |-> Scale(coeffs[p], res[p].items[i])])
           ELSE Scale(coeffs[p], res[p])]

\* line 332: np.array([1, -1])
Projector == <<1, -1>>

\* faulty variant of Reshape: column-major
Reshape_ColumnMajor(v, rows, cols) ==
    [i \in 1..rows |-> [j \in 1..cols |-> v[(j - 1) * rows + i]]]

\* qml.math.reshape(v, (rows, cols)), row-major
Reshape(v, rows, cols) ==
    [i \in 1..rows |-> [j \in 1..cols |-> v[(i - 1) * cols + j]]]

\* qml.math.tensordot(m, projector, axes=[[1], [0]])
Tensordot(m, projector) ==
    [i \in 1..Len(m) |->
        SumSeq([j \in 1..Len(projector) |-> m[i][j] * projector[j]])]

\* lines 340-344, 347-349: the projection of one probability result
ProjectProbs(r, num_wires_probs) ==
    Arr(1, Tensordot(Reshape(r.v, Pow2(num_wires_probs), 2), Projector))

\* lines 337-349: final_res after the projection of the probability results
ProjectedResults(t, measurements_probs, scaled) ==
    LET multi_measurements == Len(t.measurements) > 1
    IN [p \in 1..Len(scaled) |->
           IF multi_measurements
           THEN SeqOf([i \in 1..Len(scaled[p].items) |->
                          IF Contains(measurements_probs, i - 1)
                          THEN ProjectProbs(scaled[p].items[i],
                                            Len(t.measurements[i].wires))
                          ELSE scaled[p].items[i]])
           ELSE ProjectProbs(scaled[p],
                             Len(t.measurements[measurements_probs[1] + 1].wires))]

\* the sum of all the numbers of a list of arrays
RECURSIVE SumAll(_)
SumAll(arrs) == IF arrs = <<>> THEN 0 ELSE SumSeq(Head(arrs).v) + SumAll(Tail(arrs))

\* the elementwise sum of a list of arrays of one shape
ElementwiseSum(arrs) ==
    Arr(arrs[1].dim,
        [k \in 1..Len(arrs[1].v) |-> SumSeq([p \in 1..Len(arrs) |-> arrs[p].v[k]])])

\* line 360: qml.math.sum(final_res[idx : idx + num_tape], axis=axis)
MathSum(slice, multi_measurements) ==
    IF ~multi_measurements
    \* axis=None: the sum of every number
    THEN Arr(0, <<SumAll(slice)>>)
    \* axis=0: over the tapes, measurement by measurement
    ELSE SeqOf([i \in 1..Len(slice[1].items) |->
                   ElementwiseSum([p \in 1..Len(slice) |-> slice[p].items[i]])])

\* faulty variant of NextIdx: idx += 1 whatever the number of tapes
NextIdx_ByOne(idx, num_tape) == idx + 1

\* line 357, 361: the index of the next result after a parameter's results
NextIdx(idx, num_tape) == idx + num_tape

\* lines 350-361: the loop over gradient_data, from result index idx on
RECURSIVE GradsLoop(_, _, _, _)
GradsLoop(gradient_data, fr, idx, multi_measurements) ==
    IF gradient_data = <<>> THEN <<>>
    ELSE LET num_tape == Head(gradient_data)
         IN IF num_tape = 0
            THEN <<Zeros>> \o GradsLoop(Tail(gradient_data), fr, idx, multi_measurements)
            ELSE IF num_tape = 1
            THEN <<fr[idx + 1]>>
                 \o GradsLoop(Tail(gradient_data), fr, NextIdx(idx, 1), multi_measurements)
            ELSE <<MathSum(SubSeq(fr, idx + 1, idx + num_tape), multi_measurements)>>
                 \o GradsLoop(Tail(gradient_data), fr, NextIdx(idx, num_tape),
                              multi_measurements)

\* x[i] for a value x
Index(x, i) ==
    IF x.t = "seq"
    THEN (IF i < Len(x.items) THEN x.items[i + 1] ELSE Exc("IndexError"))
    ELSE IF x.dim = 0 THEN Exc("IndexError")
    ELSE IF i < Len(x.v) THEN Arr(0, <<x.v[i + 1]>>) ELSE Exc("IndexError")

\* tuple(x) for a value x
TupleOf(x) ==
    IF x.t = "seq" THEN x
    ELSE IF x.dim = 0 THEN Exc("TypeError")
    ELSE SeqOf([i \in 1..Len(x.v) |-> Arr(0, <<x.v[i]>>)])

\* faulty variant of Reorder: grads_reorder[i][j] = grads[i][j]
Reorder_NoSwap(t, g) ==
    LET cells == [i \in 1..Len(t.measurements) |->
                     [j \in 1..Len(t.trainable_params) |->
                         IF i <= Len(g) THEN Index(g[i], j - 1) ELSE Exc("IndexError")]]
    IN IF \E i \in 1..Len(cells) : \E j \in 1..Len(cells[i]) : IsExc(cells[i][j])
       THEN Exc("IndexError")
       ELSE SeqOf([i \in 1..Len(cells) |-> SeqOf(cells[i])])

\* lines 372-378: grads_reorder[i][j] = grads[j][i]
Reorder(t, g) ==
    LET cells == [i \in 1..Len(t.measurements) |->
                     [j \in 1..Len(t.trainable_params) |-> Index(g[j], i - 1)]]
    IN IF \E i \in 1..Len(cells) : \E j \in 1..Len(cells[i]) : IsExc(cells[i][j])
       THEN Exc("IndexError")
       ELSE SeqOf([i \in 1..Len(cells) |-> SeqOf(cells[i])])

\* lines 363-380: the returned value
ShapeResult(t, g) ==
    LET multi_measurements == Len(t.measurements) > 1
        multi_params == Len(t.trainable_params) > 1
    IN IF ~multi_measurements /\ ~multi_params THEN g[1]
       ELSE IF ~(multi_params /\ multi_measurements)
       THEN (IF multi_measurements THEN TupleOf(g[1]) ELSE SeqOf(g))
       ELSE Reorder(t, g)

\* lines 319-380: the locals final_res and grads when the function ends, and
\* what it returns or raises
processing_fn(t, fn, res) ==
    LET multi_measurements == Len(t.measurements) > 1
        scaled == ScaledResults(fn.coeffs, res)
    IN IF fn.measurements_probs # <<>> /\ scaled = <<>>
       \* final_res[0] of an empty list
       THEN [final_res |-> scaled, grads |-> <<>>, jac |-> Exc("IndexError")]
       ELSE LET fr == IF fn.measurements_probs # <<>>
                      THEN ProjectedResults(t, fn.measurements_probs, scaled)
                      ELSE scaled
                g == GradsLoop(fn.gradient_data, fr, 0, multi_measurements)
            IN [final_res |-> fr, grads |-> g, jac |-> ShapeResult(t, g)]

----------------------------------------------------------------------------
(* The executor: the results of the emitted tapes *)

\* the numbers the executor returns are taken from this vector, shifted by seed
BaseVector == <<3, 2, 1, 4>>

\* outcome o of measurement i of the p-th emitted tape
RawValue(seed, p, i, o) ==
    p * BaseVector[((o + seed) % Len(BaseVector)) + 1] + (o \div Len(BaseVector)) + 2 * i

\* the result of one measurement: a number for an expectation value, the flat
\* vector of the probabilities over the measured wires (the auxiliary wire last)
RawResult(seed, p, i, m) ==
    IF m.mp = "expval" THEN Arr(0, <<RawValue(seed, p, i, 0)>>)
    ELSE Arr(1, [o \in 1..Pow2(Len(m.wires)) |-> RawValue(seed, p, i, o - 1)])

\* the result of the p-th emitted tape: a tuple if it has several measurements
TapeResult(seed, p, g_tape) ==
    IF Len(g_tape.measurements) > 1
    THEN SeqOf([i \in 1..Len(g_tape.measurements) |->
                   RawResult(seed, p, i - 1, g_tape.measurements[i])])
    ELSE RawResult(seed, p, 0, g_tape.measurements[1])

----------------------------------------------------------------------------
(* Input tapes and arguments *)

RX0 == [name |-> "RX", wires |-> <<0>>]
CRX01 == [name |-> "CRX", wires |-> <<0, 1>>]
Rot0 == [name |-> "Rot", wires |-> <<0>>]

ExpvalZ0 == [mp |-> "expval", obs |-> <<Pauli("Z", 0)>>, wires |-> <<0>>]
Probs0 == [mp |-> "probs", obs |-> <<>>, wires |-> <<0>>]
Probs01 == [mp |-> "probs", obs |-> <<>>, wires |-> <<0, 1>>]
VarZ0 == [mp |-> "var", obs |-> <<Pauli("Z", 0)>>, wires |-> <<0>>]
State == [mp |-> "state", obs |-> <<>>, wires |-> <<>>]
VnEntropy0 == [mp |-> "vn_entropy", obs |-> <<>>, wires |-> <<0>>]
MutualInfo01 == [mp |-> "mutual_info", obs |-> <<>>, wires |-> <<0, 1>>]

SeqsUpTo(S, n) == UNION {[1..k -> S] : k \in 1..n}

RECURSIVE TemplateOffset(_, _)
TemplateOffset(templates, i) ==
    IF i <= 1 THEN 0
    ELSE TemplateOffset(templates, i - 1) + NumParams(templates[i - 1].name)

\* the gates of the templates; the gate parameter of flattened index q is q + 1
BuildOps(templates) ==
    [i \in 1..Len(templates) |->
        Gate(templates[i].name, templates[i].wires,
             [s \in 1..NumParams(templates[i].name) |->
                 Angle(TemplateOffset(templates, i) + s)])]

TotalParams(ops) == ParamOffset(ops, Len(ops) + 1)

\* the ascending lists of at most n numbers of 0..(count - 1)
SortedSubsets(count, n) ==
    {SortedSeq(S) : S \in {T \in SUBSET (0..(count - 1)) : Cardinality(T) <= n}}

\* argnum is not given
NoArgnum == {None}

\* argnum is not given or is a list of trainable indices below k
AnyArgnum(k) == {None} \cup {Some(a) : a \in SortedSubsets(k, k)}

InitWith(OpsSet, kmin, DmSet, any_argnum, MeasSet, AuxSet, DevSet, ActSet) ==
    /\ active_return \in ActSet
    /\ \E ops \in OpsSet :
       \E tp \in SortedSubsets(TotalParams(ops), MaxTrainable) :
       \E ms \in MeasSet :
          /\ Len(tp) >= kmin
          /\ tape = [operations |-> ops, measurements |-> ms, trainable_params |-> tp]
          /\ diff_methods \in [1..Len(tp) -> DmSet]
          /\ argnum \in (IF any_argnum THEN AnyArgnum(Len(tp)) ELSE NoArgnum)
    /\ aux_wire \in AuxSet
    /\ device_wires \in DevSet
    /\ pc = "call"
    /\ ret = Returned("", <<>>, NoFn)
    /\ results = <<>>
    /\ final_res = <<>>
    /\ grads = <<>>
    /\ jac = Exc("not called")

\* every tape of at most MaxOps gates, all its trainable parameters analytic and
\* differentiated, one expectation value
InitSplice ==
    InitWith({BuildOps(ts) : ts \in SeqsUpTo({RX0, CRX01, Rot0}, MaxOps)}, 1,
             {"A"}, FALSE, {<<ExpvalZ0>>}, {None}, {None}, {TRUE})

\* three tapes with every choice of trainable parameters, of their methods and
\* of argnum
InitSelect ==
    InitWith({BuildOps(ts) : ts \in {<<RX0, CRX01>>, <<Rot0, RX0>>, <<CRX01, Rot0, RX0>>}}, 0,
             {"A", "0"}, TRUE, {<<ExpvalZ0>>, <<Probs0>>}, {None}, {None}, {TRUE})

\* tapes of at most MaxOps RX and CRX gates with every list of at most MaxMeas expectation
\* and probability measurements
InitPost ==
    InitWith({BuildOps(ts) : ts \in SeqsUpTo({RX0, CRX01}, MaxOps)}, 1,
             {"A", "0"}, FALSE, SeqsUpTo({ExpvalZ0, Probs0, Probs01}, MaxMeas),
             {None}, {None}, {TRUE})

\* two tapes with every measurement kind, auxiliary wire and device
InitValid ==
    InitWith({BuildOps(ts) : ts \in {<<RX0>>, <<CRX01>>}}, 0,
             {"A", "0"}, TRUE,
             SeqsUpTo({ExpvalZ0, Probs0, VarZ0, State, VnEntropy0, MutualInfo01}, MaxMeas),
             {None} \cup {Some(<<w>>) : w \in 0..3},
             {None, Some(<<>>), Some(<<0, 1>>), Some(<<0, 1, 2>>)},
             BOOLEAN)

Init == InitSplice \/ InitSelect \/ InitPost \/ InitValid

----------------------------------------------------------------------------
(* Actions *)

\* the call _hadamard_grad(tape, argnum, aux_wire=..., device_wires=...)
Transform ==
    /\ pc = "call"
    /\ ret' = _hadamard_grad(active_return, tape, diff_methods, argnum,
                             aux_wire, device_wires)
    /\ pc' = IF ret'.kind = "raise" THEN "raised" ELSE "returned"
    /\ UNCHANGED <<active_return, tape, diff_methods, argnum, aux_wire,
                   device_wires, results, final_res, grads, jac>>

\* the executor runs the emitted tapes and returns their results in order
Execute ==
    /\ pc = "returned"
    /\ ret.kind = "tapes"
    /\ \E seed \in 0..MaxSeed :
          results' = [p \in 1..Len(ret.g_tapes) |-> TapeResult(seed, p, ret.g_tapes[p])]
    /\ pc' = "executed"
    /\ UNCHANGED <<active_return, tape, diff_methods, argnum, aux_wire,
                   device_wires, ret, final_res, grads, jac>>

\* the call processing_fn(results)
Process ==
    /\ pc = "executed"
    /\ LET r == processing_fn(tape, ret.fn, results)
       IN /\ final_res' = r.final_res
          /\ grads' = r.grads
          /\ jac' = r.jac
    /\ pc' = "done"
    /\ UNCHANGED <<active_return, tape, diff_methods, argnum, aux_wire,
                   device_wires, ret, results>>

Next == Transform \/ Execute \/ Process

Spec == Init /\ [][Next]_vars
SpecSplice == InitSplice /\ [][Next]_vars
SpecSelect == InitSelect /\ [][Next]_vars
SpecPost == InitPost /\ [][Next]_vars
SpecValid == InitValid /\ [][Next]_vars

----------------------------------------------------------------------------
(* Properties *)

K == Len(tape.trainable_params)
M == Len(tape.measurements)

\* _hadamard_grad has returned tapes and a processing function
Emitted == pc \in {"returned", "executed", "done"} /\ ret.kind = "tapes"

\* the number of tapes emitted for the trainable parameters before parameter j
TapesBefore(j) == SumSeq(SubSeq(ret.fn.gradient_data, 1, j))

\* the trainable parameters (from 0) for which tapes were emitted
Differentiated == {j \in 0..(K - 1) : ret.fn.gradient_data[j + 1] > 0}

\* the gates of the tape emitted for term g of trainable parameter j
EmittedOps(j, g) == ret.g_tapes[TapesBefore(j) + g].ops

\* the Hadamard test of a generator on some auxiliary wire outside the tape
IsHadamardTest(three, gen) ==
    \E w \in 0..Cardinality(TapeWires(tape)) :
        /\ w \notin TapeWires(tape)
        /\ three = <<Hadamard(<<w>>), Ctrl(gen, <<w>>), Hadamard(<<w>>)>>

\* ops is before, then the Hadamard test of gen, then after
IsSplice(ops, before, gen, after) ==
    /\ Len(ops) = Len(before) + 3 + Len(after)
    /\ SubSeq(ops, 1, Len(before)) = before
    /\ IsHadamardTest(SubSeq(ops, Len(before) + 1, Len(before) + 3), gen)
    /\ SubSeq(ops, Len(before) + 4, Len(ops)) = after

GatesBefore(idx) == SubSeq(tape.operations, 1, idx)
GatesAfter(idx) == SubSeq(tape.operations, idx + 2, Len(tape.operations))
GateAt(idx) == tape.operations[idx + 1]

\* C9 as stated: for a differentiated parameter whose gate, at position idx, is
\* not Rot, each emitted tape is the gates strictly before idx, the Hadamard
\* test of the generator term, and the gates strictly after idx: the owning gate
\* is removed.
C9_OwningGateRemoved ==
    Emitted =>
        \A j \in Differentiated :
            LET o == get_operation(tape, j)
                gens == _get_generators(o.op).generators
            IN o.op.name # "Rot" =>
                   \A g \in 1..Len(gens) :
                       IsSplice(EmittedOps(j, g), GatesBefore(o.idx), gens[g],
                                GatesAfter(o.idx))

\* C9 amended: for a differentiated parameter whose gate, at position idx, is
\* not Rot, one tape is emitted per generator term, and it is the gates up to
\* and including idx in their order (the owning gate is kept, right before the
\* first Hadamard), the Hadamard test of the term, and the gates strictly after
\* idx in their order.
C9_OwningGateKept ==
    Emitted =>
        \A j \in Differentiated :
            LET o == get_operation(tape, j)
                gens == _get_generators(o.op).generators
            IN o.op.name # "Rot" =>
                   /\ ret.fn.gradient_data[j + 1] = Len(gens)
                   /\ \A g \in 1..Len(gens) :
                          IsSplice(EmittedOps(j, g),
                                   Append(GatesBefore(o.idx), GateAt(o.idx)),
                                   gens[g], GatesAfter(o.idx))

\* a two-term gate in the middle of three gates has been differentiated
C9_Witness ==
    /\ Emitted
    /\ Len(tape.operations) = 3
    /\ \E j \in Differentiated :
           /\ get_operation(tape, j).idx = 1
           /\ get_operation(tape, j).op.name = "CRX"
           /\ ret.fn.gradient_data[j + 1] = 2

\* C10: for a differentiated parameter of a Rot gate exactly one tape is
\* emitted. For the first parameter the Rot gate comes right after the second
\* Hadamard; for the second, RZ(-omega), RX(pi/2) are the last gates before the
\* first Hadamard and RX(-pi/2), RZ(omega) the first after the second; for the
\* third nothing is added or moved. The other gates keep their order.
C10_RotCompensation ==
    Emitted =>
        \A j \in Differentiated :
            LET o == get_operation(tape, j)
                gen == <<Pauli("Z", o.op.wires[1])>>
                omega == o.op.data[3]
                w == o.op.wires
            IN o.op.name = "Rot" =>
                   /\ ret.fn.gradient_data[j + 1] = 1
                   /\ o.p_idx = 0 =>
                          IsSplice(EmittedOps(j, 1), GatesBefore(o.idx), gen,
                                   <<GateAt(o.idx)>> \o GatesAfter(o.idx))
                   /\ o.p_idx = 1 =>
                          IsSplice(EmittedOps(j, 1),
                                   GatesBefore(o.idx)
                                   \o <<GateAt(o.idx),
                                        Gate("RZ", w, <<Neg(omega)>>),
                                        Gate("RX", w, <<HalfPiTimes(1)>>)>>,
                                   gen,
                                   <<Gate("RX", w, <<HalfPiTimes(-1)>>),
                                     Gate("RZ", w, <<omega>>)>>
                                   \o GatesAfter(o.idx))
                   /\ o.p_idx = 2 =>
                          IsSplice(EmittedOps(j, 1),
                                   Append(GatesBefore(o.idx), GateAt(o.idx)),
                                   gen, GatesAfter(o.idx))

\* the first and the second parameter of a Rot gate between two other gates
\* have been differentiated
C10_Witness ==
    /\ Emitted
    /\ Len(tape.operations) = 3
    /\ \E j \in Differentiated :
           /\ j + 1 \in Differentiated
           /\ get_operation(tape, j).op.name = "Rot"
           /\ get_operation(tape, j).idx = 1
           /\ get_operation(tape, j).p_idx = 0
           /\ get_operation(tape, j + 1).p_idx = 1

----------------------------------------------------------------------------
(* Properties of the argument checks *)

Returned_ == pc # "call"

UnsupportedMeasurement ==
    \E i \in 1..M :
        tape.measurements[i].mp \in {"var", "state", "vn_entropy", "mutual_info"}

\* C2: with the return mode active, a call on a tape with a variance, state,
\* entropy or mutual-information measurement raises the unsupported-measurement
\* error, with no tape built and no processing function returned, whatever the
\* trainable parameters, argnum, the auxiliary wire and the device wires.
C2_MeasurementCheckFirst ==
    (Returned_ /\ active_return /\ UnsupportedMeasurement) =>
        /\ pc = "raised"
        /\ ret.kind = "raise"
        /\ ret.exc \in {"ValueError: variances", "ValueError: state"}
        /\ ret.g_tapes = <<>>
        /\ ret.fn = NoFn

\* a rejected call that the later checks would have ended otherwise: no
\* trainable parameter and no argnum, and an auxiliary wire the tape uses
C2_Witness ==
    /\ pc = "raised"
    /\ active_return
    /\ ret.exc = "ValueError: state"
    /\ tape.measurements[M].mp = "mutual_info"
    /\ argnum.none
    /\ K = 0
    /\ ~aux_wire.none
    /\ aux_wire.v[1] \in TapeWires(tape)

\* the call passes the checks before the wire validation
ReachesWireValidation ==
    /\ Returned_
    /\ active_return
    /\ ~UnsupportedMeasurement
    /\ \E i \in 1..K : diff_methods[i] = "A"

\* C3 as stated: with an explicit auxiliary wire and an analytic parameter the
\* call ends in the no-spare-wire error if the device wires are given and are as
\* many as the tape's; otherwise in "already used" if the wire is one of the
\* tape's; otherwise in "not on device" if the wire is not among the device
\* wires; otherwise it returns tapes. No other failure is reachable, also when
\* no device wires are given.
C3_WireValidationTotal ==
    (ReachesWireValidation /\ ~aux_wire.none) =>
        LET w == aux_wire.v[1]
            full == /\ ~device_wires.none
                    /\ device_wires.v # <<>>
                    /\ Len(device_wires.v) = Cardinality(TapeWires(tape))
            used == w \in TapeWires(tape)
        IN /\ ret.exc \in {"", "QuantumFunctionError: no free wire",
                           "QuantumFunctionError: already used",
                           "QuantumFunctionError: not on device"}
           /\ full <=> ret.exc = "QuantumFunctionError: no free wire"
           /\ (~full /\ used) <=> ret.exc = "QuantumFunctionError: already used"
           /\ (~full /\ ~used /\ ~device_wires.none /\ w \notin Range(device_wires.v))
                  <=> ret.exc = "QuantumFunctionError: not on device"
           /\ ret.exc = "" <=> ret.kind = "tapes"

\* the trainable parameters (from 0) selected for differentiation: those of
\* argnum (all if it is None) whose method is analytic
Selected ==
    {j \in 0..(K - 1) :
        /\ diff_methods[j + 1] = "A"
        /\ argnum.none \/ Contains(argnum.v, j)}

\* C4 as stated: tapes are emitted for the trainable parameter at position j if
\* and only if j is selected; every other parameter has emission count 0. With
\* nothing selected no tape is emitted.
C4_EmittedIffSelected ==
    Emitted =>
        /\ Len(ret.fn.gradient_data) = K
        /\ Differentiated = Selected
        /\ Selected = {} => ret.g_tapes = <<>>

----------------------------------------------------------------------------
(* Properties of processing_fn *)

Done == pc = "done"

Counts == ret.fn.gradient_data

\* C1: when every trainable parameter has an emitted tape, processing_fn
\* returns grads[0] itself for K = 1, M = 1; for K > 1, M = 1 the K entries of
\* grads in order; for K = 1, M > 1 the M entries of grads[0] in order; for
\* K > 1, M > 1 a sequence of M sequences of length K whose element [i][j] is
\* entry i of grads[j].
C1_ShapeConvention ==
    (Done /\ \A j \in 1..K : Counts[j] >= 1) =>
        /\ ~IsExc(jac)
        /\ Len(grads) = K
        /\ (K = 1 /\ M = 1) => jac = grads[1]
        /\ (K > 1 /\ M = 1) =>
               /\ jac.t = "seq"
               /\ Len(jac.items) = K
               /\ \A j \in 1..K : jac.items[j] = grads[j]
        /\ (K = 1 /\ M > 1) =>
               /\ jac.t = "seq"
               /\ Len(jac.items) = M
               /\ \A i \in 1..M : jac.items[i] = grads[1].items[i]
        /\ (K > 1 /\ M > 1) =>
               /\ jac.t = "seq"
               /\ Len(jac.items) = M
               /\ \A i \in 1..M :
                      /\ jac.items[i].t = "seq"
                      /\ Len(jac.items[i].items) = K
                      /\ \A j \in 1..K :
                             jac.items[i].items[j] = grads[j].items[i]

\* two parameters, two measurements, and the per-parameter entries differ
\* between the parameters and between the measurements
C1_Witness ==
    /\ Done
    /\ K = 2
    /\ M = 2
    /\ Counts = <<1, 2>>
    /\ jac.t = "seq"
    /\ grads[1].items[2] # grads[2].items[1]

\* the scaled result of measurement i of the p-th tape
ScaledEntry(p, i) ==
    IF M > 1 THEN Scale(ret.fn.coeffs[p], results[p].items[i])
    ELSE Scale(ret.fn.coeffs[p], results[p])

\* the entry of final_res for measurement i of the p-th tape
FinalEntry(p, i) == IF M > 1 THEN final_res[p].items[i] ELSE final_res[p]

\* C5: for every probability measurement over n wires, of one or of several
\* measurements, final_res holds for the scaled flat result r of length
\* 2^(n+1) the vector p of length 2^n with p[i] = r[2i] - r[2i+1]; the entries
\* of expectation values are the scaled results.
C5_ProbabilityProjection ==
    Done =>
        /\ Len(final_res) = Len(results)
        /\ \A p \in 1..Len(final_res) : \A i \in 1..M :
               LET r == ScaledEntry(p, i).v
                   n == Len(tape.measurements[i].wires)
               IN IF tape.measurements[i].mp = "probs"
                  THEN /\ Len(r) = Pow2(n + 1)
                       /\ FinalEntry(p, i) =
                              Arr(1, [k \in 1..Pow2(n) |-> r[2 * k - 1] - r[2 * k]])
                  ELSE FinalEntry(p, i) = ScaledEntry(p, i)

\* the raw probabilities 0.3, 0.2, 0.1, 0.4 (in tenths) of one probability
\* measurement, scaled by 2 * (-0.5): 0.1, -0.3 times -1 (in twentieths)
C5_Witness ==
    /\ Done
    /\ M = 1
    /\ tape.measurements[1].mp = "probs"
    /\ results[1].v = <<3, 2, 1, 4>>
    /\ ret.fn.coeffs[1] = -2
    /\ final_res[1] = Arr(1, <<-2, 6>>)

\* the gradient entry of a parameter from the results lo+1 .. lo+n of final_res
EntryOf(n, lo) ==
    IF n = 0 THEN Zeros
    ELSE IF n = 1 THEN final_res[lo + 1]
    ELSE MathSum(SubSeq(final_res, lo + 1, lo + n), M > 1)

IsCtrl(gate) == gate.name = "ctrl"

\* processing_fn did not raise at line 334 or 336, before the loop over
\* gradient_data: there is a result or no probability measurement
AggregationReached == ~(ret.fn.measurements_probs # <<>> /\ results = <<>>)

\* C6: the coefficients, the tapes and the sum of the emission counts have one
\* length; the tapes of parameter j are at the positions after those of the
\* parameters before it, one per generator term in the table's order, each with
\* the coefficient of its term and the controlled generator of its term. processing_fn scales the p-th result by the
\* p-th coefficient and, in its loop over the emission counts, gives
\* parameter j the results at exactly those positions.
C6_Bookkeeping ==
    Emitted =>
        /\ Len(ret.fn.coeffs) = Len(ret.g_tapes)
        /\ Len(ret.g_tapes) = SumSeq(Counts)
        /\ Len(Counts) = K
        /\ \A j \in Differentiated :
               LET gg == _get_generators(get_operation(tape, j).op)
               IN /\ Counts[j + 1] = Len(gg.generators)
                  /\ \A g \in 1..Counts[j + 1] :
                         LET p == TapesBefore(j) + g
                         IN /\ ret.fn.coeffs[p] = gg.coeffs[g]
                            /\ SelectSeq(ret.g_tapes[p].ops, IsCtrl)
                                   = <<Ctrl(gg.generators[g],
                                            SelectSeq(ret.g_tapes[p].ops, IsCtrl)[1].wires)>>
        /\ (Done /\ AggregationReached) =>
               /\ Len(final_res) = Len(ret.g_tapes)
               /\ \A p \in 1..Len(final_res) : \A i \in 1..M :
                      tape.measurements[i].mp = "expval" =>
                          FinalEntry(p, i) = ScaledEntry(p, i)
               /\ Len(grads) = K
               /\ \A j \in 0..(K - 1) :
                      grads[j + 1] = EntryOf(Counts[j + 1], TapesBefore(j))

\* a two-term parameter before a one-term parameter, both processed
C6_Witness ==
    /\ Done
    /\ Counts = <<2, 1>>
    /\ ret.fn.coeffs = <<-1, 1, -2>>
    /\ grads[2] = final_res[3]
    /\ grads[2] # final_res[2]

\* the sum, number by number, of final_res[lo+1 .. lo+n] for measurement i
TermSum(lo, n, i) ==
    ElementwiseSum([g \in 1..n |-> FinalEntry(lo + g, i)])

\* C7 as stated: the gradient entry of a parameter with n > 1 tapes (a CRX gate
\* has two, with coefficients -0.25 and +0.25) is the elementwise sum of its n
\* scaled and projected results and has their shape: a number for one
\* expectation value, a vector of the same length for one probability
\* measurement, and for M > 1 a sequence of M such sums.
C7_ElementwiseSum ==
    Done =>
        \A j \in 0..(K - 1) :
            Counts[j + 1] > 1 =>
                /\ get_operation(tape, j).op.name = "CRX" =>
                       /\ Counts[j + 1] = 2
                       /\ SubSeq(ret.fn.coeffs, TapesBefore(j) + 1, TapesBefore(j) + 2)
                              = <<-1, 1>>
                /\ IF M = 1
                   THEN grads[j + 1] = TermSum(TapesBefore(j), Counts[j + 1], 1)
                   ELSE /\ grads[j + 1].t = "seq"
                        /\ Len(grads[j + 1].items) = M
                        /\ \A i \in 1..M :
                               grads[j + 1].items[i]
                                   = TermSum(TapesBefore(j), Counts[j + 1], i)

\* the shape of the returned value for K parameters and M measurements
DocumentedShape(x) ==
    /\ ~IsExc(x)
    /\ (K > 1 /\ M = 1) => x.t = "seq" /\ Len(x.items) = K
    /\ (K = 1 /\ M > 1) => x.t = "seq" /\ Len(x.items) = M
    /\ (K > 1 /\ M > 1) =>
           /\ x.t = "seq"
           /\ Len(x.items) = M
           /\ \A i \in 1..M : x.items[i].t = "seq" /\ Len(x.items[i].items) = K

\* C8 as stated: with a parameter of emission count 0 and another of count at
\* least 1, processing_fn ends without error and returns the documented shape;
\* the parameter of count 0 has a zero entry, at [i][j] for every measurement i
\* when there are several measurements and several parameters.
C8_ZeroCountShape ==
    (Done /\ (\E j \in 1..K : Counts[j] = 0) /\ (\E j \in 1..K : Counts[j] >= 1)) =>
        /\ DocumentedShape(jac)
        /\ \A j \in 1..K :
               Counts[j] = 0 =>
                   IF M = 1 THEN jac.items[j] = Zeros
                   ELSE \A i \in 1..M : jac.items[i].items[j] = Zeros

====
